---------------------------- MODULE Spec2Model ----------------------------
(***************************************************************************)
(* A model of the WARP pipeline build engine (j-helland/warp):             *)
(*   - warp/graph/graph.py        Graph.add, save/load, lineage, names     *)
(*   - warp/pipes/pipes.py        Pipe.load_products / save_products       *)
(*   - warp/pipes/attributes.py   Product.path                             *)
(*   - warp/workspace/workspace.py  Workspace.backfill / build / gap pipes *)
(*   - warp/workspace/build_pipe.py the child process of a backfill        *)
(* Pipe names, which the code takes apart (startswith, split, substring),   *)
(* are sequences of characters.                                            *)
(***************************************************************************)
EXTENDS Integers, Sequences, FiniteSets, TLC

VARIABLES
    G,              \* Workspace.PG / the Graph under construction
    phase,          \* "graph": add calls only; "ws": a Workspace exists
    link_static_products, \* Workspace.link_static_products
    ages,           \* metadata.csv of the session: pipe -> last_build_time, 0 = no file
    snap,           \* parameters.yml of the session: pipe -> snapshot written?
    params_yml,     \* parameters.yml of the session: pipe -> value of x, "" = no file
    parameters,     \* the Parameter x of each pipe class in the Workspace's process
    values,         \* the value its save=False products hold in that process, per pipe
    srcsnap,        \* source.txt of the session: pipe -> written?
    disk,           \* product files and directories that exist (resolved paths)
    meta_warp,      \* HOME/meta.warp exists (it then names the session)
    graph_pkl,      \* <session_dir>/graph.pkl: whether it exists, and its content
    now,            \* wall clock (time.time()), in ticks
    pc,             \* "idle", "loop" (a backfill is between children) or "child"
    call,           \* the operation in progress or last finished
    SESSION_ID,     \* warp.globals.SESSION_ID, the id of Home: the current session
    others          \* the other session directories under HOME: id -> their records

vars == <<G, phase, link_static_products, ages, snap, params_yml, parameters, values,
          srcsnap, disk, meta_warp, graph_pkl, now, pc, call, SESSION_ID,
          others>>

---------------------------------------------------------------------------
\* Bounds of the model.

\* Largest number of nodes a graph under construction may hold.
MaxNodes == 4
\* Last tick of the wall clock at which a build may still be started.
MaxTime == 3

---------------------------------------------------------------------------
\* warp/constants.py

HOME_DIR_DEFAULT == ".warp"
STATIC_PRODUCTS_DIR_NAME == "static_products"
PRODUCTS_DIR_NAME == "products"
SOURCE_PREFIX == <<"_", "_", "s", "o", "u", "r", "c", "e", "_", "_">>

---------------------------------------------------------------------------
\* Strings that the code takes apart.

\* A pipe name (str.startswith, str.split and `in` are applied to it) is the
\* sequence of its characters; M(c) is the module name m.<c>, None the
\* absence of a name.
M(c) == <<"m", ".", c>>
None == <<>>

\* The characters of the path components the declarations use.
Chars ==
    "{}" :> <<"{", "}">> @@
    ".warp" :> <<".", "w", "a", "r", "p">> @@
    "static_products" :> <<"s", "t", "a", "t", "i", "c", "_",
                           "p", "r", "o", "d", "u", "c", "t", "s">> @@
    "in" :> <<"i", "n">> @@ "raw" :> <<"r", "a", "w">> @@
    "d" :> <<"d">> @@ "d1" :> <<"d", "1">> @@ "d2" :> <<"d", "2">> @@
    "a" :> <<"a">> @@ "b" :> <<"b">> @@ "c" :> <<"c">> @@ "e" :> <<"e">> @@
    "f" :> <<"f">> @@ "n" :> <<"n">> @@ "p" :> <<"p">> @@ "q" :> <<"q">> @@
    "s" :> <<"s">> @@ "x" :> <<"x">> @@ "y" :> <<"y">> @@ "k" :> <<"k">> @@
    "g" :> <<"g">> @@ "h" :> <<"h">> @@ "j" :> <<"j">> @@ "r" :> <<"r">> @@ "r2" :> <<"r", "2">> @@
    "w" :> <<"w">> @@ "t" :> <<"t">> @@ "t2" :> <<"t", "2">> @@
    "u" :> <<"u">> @@ "v" :> <<"v">>

\* str.startswith
StartsWith(cs, pre) ==
    /\ Len(pre) <= Len(cs)
    /\ SubSeq(cs, 1, Len(pre)) = pre

\* `a in b` for strings
IsSubstring(a, b) ==
    \E i \in 0..(Len(b) - Len(a)) : SubSeq(b, i + 1, i + Len(a)) = a

\* str(n) for the indices the model reaches
Digits(n) == <<CASE n = 0 -> "0" [] n = 1 -> "1" [] n = 2 -> "2"
                  [] n = 3 -> "3" [] n = 4 -> "4" [] OTHER -> "5">>

\* name.split('.')[-1]
RECURSIVE LastSegment(_)
LastSegment(cs) ==
    IF \E i \in 1..Len(cs) : cs[i] = "."
    THEN LastSegment(Tail(cs))
    ELSE cs

\* os.path.join of path components, as characters
RECURSIVE PathChars(_)
PathChars(path) ==
    IF path = <<>> THEN <<>>
    ELSE IF Len(path) = 1 THEN Chars[path[1]]
    ELSE Chars[path[1]] \o <<"/">> \o PathChars(Tail(path))

---------------------------------------------------------------------------
\* Pipe declarations: what a user module (or a Source object) declares.

\* warp.Product(path, static=, external=, save=): `save` is "pickle" (default
\* writer), "custom" (a user writer and reader) or "none" (save=False);
\* `produced` says whether the product is passed to @produces.
Prod(attr, raw, static, external, save, produced) ==
    [attr |-> attr, raw |-> raw, static |-> static, external |-> external,
     save |-> save, produced |-> produced]

\* One keyword of @dependencies: the keyword and the (copied) Product.
Dep(key, prod) == [key |-> key, prod |-> prod]

\* @dependencies(key="some/path"): a string is wrapped as an external Product.
StrDep(key, raw) == Dep(key, Prod(key, raw, FALSE, TRUE, "pickle", FALSE))

\* Product.path
ProductPath(p) ==
    IF p.external THEN p.raw
    ELSE IF p.static THEN <<HOME_DIR_DEFAULT, STATIC_PRODUCTS_DIR_NAME>> \o p.raw
    ELSE <<"{}">> \o p.raw

\* warp.ParameterFile(path, multi_use=): a config file a pipe declares.
ParameterFile(attr, path, multi_use) ==
    [attr |-> attr, path |-> path, multi_use |-> multi_use]

Decl(name, products, deps, param_files, params_ok) ==
    [name |-> name, products |-> products, deps |-> deps,
     param_files |-> param_files, params_ok |-> params_ok]

pA  == Prod("a", <<"d", "a">>, FALSE, FALSE, "pickle", TRUE)
pB  == Prod("b", <<"d", "b">>, FALSE, FALSE, "pickle", TRUE)
pC  == Prod("c", <<"d", "c">>, TRUE, FALSE, "pickle", TRUE)
pD1 == Prod("d1", <<"d", "d1">>, FALSE, FALSE, "pickle", TRUE)
pD2 == Prod("d2", <<"d", "d2">>, FALSE, FALSE, "custom", TRUE)
pF  == Prod("f", <<"d", "f">>, FALSE, FALSE, "pickle", TRUE)
pN  == Prod("n", <<"d", "n">>, FALSE, FALSE, "none", TRUE)
pN2 == Prod("n2", <<"d", "n", "k">>, FALSE, FALSE, "pickle", TRUE)
pE  == Prod("e", <<"d", "e">>, FALSE, FALSE, "pickle", TRUE)
pP  == Prod("p", <<"d", "p">>, FALSE, FALSE, "pickle", TRUE)
pQ  == Prod("q", <<"d", "q">>, FALSE, FALSE, "pickle", TRUE)
pS  == Prod("s", <<"d", "s">>, FALSE, FALSE, "pickle", TRUE)
pX  == Prod("x", <<"d", "x">>, FALSE, FALSE, "pickle", TRUE)
pY  == Prod("y", <<"d", "x", "y">>, FALSE, FALSE, "pickle", TRUE)
pG  == Prod("g", <<"d", "g">>, FALSE, FALSE, "pickle", TRUE)
pJ  == Prod("j", <<"d", "j">>, FALSE, FALSE, "pickle", TRUE)
pH  == Prod("h", <<"d", "h">>, FALSE, FALSE, "pickle", TRUE)
pK  == Prod("k", <<"d", "k">>, FALSE, FALSE, "pickle", TRUE)
pR  == Prod("r", <<"d", "r">>, FALSE, FALSE, "none", TRUE)
pR2 == Prod("r2", <<"d", "r2">>, FALSE, FALSE, "pickle", TRUE)
pW  == Prod("w", <<"d", "w">>, FALSE, FALSE, "pickle", TRUE)
pT  == Prod("t", <<"d", "t">>, TRUE, FALSE, "pickle", TRUE)
pT2 == Prod("t2", <<"d", "t2">>, FALSE, FALSE, "pickle", TRUE)
pU  == Prod("u", <<"d", "u">>, FALSE, FALSE, "pickle", TRUE)
pV  == Prod("v", <<"d", "v">>, FALSE, FALSE, "pickle", TRUE)

\* The config files: m.A declares its file multi_use, m.C and m.N do not.
cfgShared == ParameterFile("config", <<"config", "shared.yml">>, TRUE)
cfgOwned  == ParameterFile("config", <<"config", "shared.yml">>, FALSE)
cfgG      == ParameterFile("config", <<"config", "g.yml">>, FALSE)

\* The user's modules.  m.A is a root, m.B consumes its product and m.D
\* consumes both (one of m.D's own products is written by a custom writer);
\* m.C is a root with a static product and m.F consumes it; m.N is a root
\* that keeps one product in memory (save=False) and pickles another below
\* it, and m.E consumes the first; m.P is a root with a parameter whose
\* value the parameter snapshot rejects and m.Q consumes its product; m.S
\* depends on an external file; m.X and m.Y depend on each other's product
\* and m.Y's product lies below m.X's.  m.A, m.C and m.N declare the same
\* config file.
Modules ==
    M("A") :> Decl(M("A"), <<pA>>, <<>>, <<cfgShared>>, TRUE) @@
    M("B") :> Decl(M("B"), <<pB>>, <<Dep("a", pA)>>, <<>>, TRUE) @@
    M("C") :> Decl(M("C"), <<pC>>, <<>>, <<cfgOwned>>, TRUE) @@
    M("D") :> Decl(M("D"), <<pD1, pD2>>, <<Dep("a", pA), Dep("b", pB)>>, <<>>, TRUE) @@
    M("F") :> Decl(M("F"), <<pF>>, <<Dep("c", pC)>>, <<>>, TRUE) @@
    M("N") :> Decl(M("N"), <<pN, pN2>>, <<>>, <<cfgOwned>>, TRUE) @@
    M("E") :> Decl(M("E"), <<pE>>, <<Dep("n", pN)>>, <<>>, TRUE) @@
    M("P") :> Decl(M("P"), <<pP>>, <<>>, <<>>, FALSE) @@
    M("Q") :> Decl(M("Q"), <<pQ>>, <<Dep("p", pP)>>, <<>>, TRUE) @@
    M("S") :> Decl(M("S"), <<pS>>, <<StrDep("raw", <<"in", "raw">>)>>, <<>>, TRUE) @@
    M("X") :> Decl(M("X"), <<pX>>, <<Dep("y", pY)>>, <<>>, TRUE) @@
    M("Y") :> Decl(M("Y"), <<pY>>, <<Dep("x", pX)>>, <<>>, TRUE)

ModuleNames == DOMAIN Modules

\* Further modules, which the registered graph builders use: m.H consumes
\* m.A's product as m.B does and m.K consumes those of m.B and m.H, which
\* makes the diamond m.A -> m.B, m.A -> m.H, m.B -> m.K, m.H -> m.K; m.R is
\* a root that keeps one product in memory and pickles another beside it;
\* m.W is a root, m.T consumes its product and has a static product and
\* another that is not, m.U consumes the static one and m.V both; m.G
\* consumes m.A's product and has a config file of its own; m.J consumes
\* m.A's product under a keyword of its own choice, @dependencies(src=A.a).
MoreModules ==
    M("H") :> Decl(M("H"), <<pH>>, <<Dep("a", pA)>>, <<>>, TRUE) @@
    M("K") :> Decl(M("K"), <<pK>>, <<Dep("b", pB), Dep("h", pH)>>, <<>>, TRUE) @@
    M("R") :> Decl(M("R"), <<pR, pR2>>, <<>>, <<>>, TRUE) @@
    M("W") :> Decl(M("W"), <<pW>>, <<>>, <<>>, TRUE) @@
    M("T") :> Decl(M("T"), <<pT, pT2>>, <<Dep("w", pW)>>, <<>>, TRUE) @@
    M("U") :> Decl(M("U"), <<pU>>, <<Dep("t", pT)>>, <<>>, TRUE) @@
    M("V") :> Decl(M("V"), <<pV>>, <<Dep("t", pT), Dep("t2", pT2)>>, <<>>, TRUE) @@
    M("G") :> Decl(M("G"), <<pG>>, <<Dep("a", pA)>>, <<cfgG>>, TRUE) @@
    M("J") :> Decl(M("J"), <<pJ>>, <<Dep("src", pA)>>, <<>>, TRUE)

\* The modules a Workspace's process can import.
Importable == Modules @@ MoreModules

\* Every module declares x = Parameter('x', default=...); ParamOverride is a
\* value a caller gives it.
ParamDefault == "default"
ParamOverride == "v"

\* The configs a caller gives: none, or a value for the parameter x.
NoConfig == {}
Override == {<<"x", ParamOverride>>}

\* The class attributes of a pipe declaration (what hasattr sees).
Attrs(decl) ==
    {decl.products[i].attr : i \in 1..Len(decl.products)}
        \cup {decl.param_files[i].attr : i \in 1..Len(decl.param_files)}

\* Source(name)(*products): a pipe class Main whose attributes product<i> are
\* static Products of the given paths.
ProductAttr(i) ==
    CASE i = 0 -> "product0" [] i = 1 -> "product1" [] OTHER -> "product2"

SourceDecl(name, missing) ==
    Decl(name,
         [i \in 1..Len(missing) |->
            Prod(ProductAttr(i - 1), missing[i], TRUE, FALSE, "pickle", FALSE)],
         <<>>, <<>>, TRUE)

---------------------------------------------------------------------------
\* warp/graph/graph.py

\* Graph.__init__: an empty multi-digraph and no registered config files.
\* nodes keeps insertion order; data are the node attributes; edges are
\* <<parent, child, label>> in the order they were added; data[n].dep_source
\* is the __source__ annotation of each dependency of pipe n.
EmptyGraph ==
    [nodes |-> <<>>, data |-> <<>>, edges |-> <<>>, config_files |-> {}]

NodeSet(g) == {g.nodes[i] : i \in 1..Len(g.nodes)}

\* Graph.is_source_pipe
is_source_pipe(name) == StartsWith(name, SOURCE_PREFIX)

\* Graph._list_local_pipe_products
_list_local_pipe_products(decl) ==
    [i \in 1..Len(decl.products) |-> ProductPath(decl.products[i])]

\* Graph._prevent_nested_products: TRUE when it raises.
_prevent_nested_products(g, path) ==
    \E node \in NodeSet(g) :
        \/ StartsWith(node, PathChars(path))
        \/ StartsWith(PathChars(path), node)

\* A lookup that takes the first node of the graph for the producer of any
\* path.
RECURSIVE AnyProducer(_, _, _)
AnyProducer(g, path, i) ==
    IF Len(g.nodes) = 0 THEN None ELSE g.nodes[1]

\* Graph.get_parents_from_products, for one product: the first node in
\* insertion order whose products hold the path, or None.
RECURSIVE FirstProducer(_, _, _)
FirstProducer(g, path, i) ==
    IF i > Len(g.nodes) THEN None
    ELSE IF \E j \in 1..Len(g.data[g.nodes[i]].products) :
                g.data[g.nodes[i]].products[j] = path
         THEN g.nodes[i]
         ELSE FirstProducer(g, path, i + 1)

get_parents_from_products(g, products) ==
    [i \in 1..Len(products) |-> FirstProducer(g, products[i], 1)]

\* The config-file loop of Graph.add (lines 146-154): the files before the
\* one that raises stay registered.
RECURSIVE RegisterConfigs(_, _, _)
RegisterConfigs(cf, files, i) ==
    IF i > Len(files) THEN [config_files |-> cf, raised |-> FALSE]
    ELSE IF files[i].path \in cf THEN [config_files |-> cf, raised |-> TRUE]
    ELSE RegisterConfigs(IF files[i].multi_use THEN cf ELSE cf \cup {files[i].path},
                         files, i + 1)

\* The name loop of Graph.add (lines 188-193): the lowest n for which
\* __source__<short><n> is not a node.
RECURSIVE SourceName(_, _, _)
SourceName(g, short, n) ==
    LET name == SOURCE_PREFIX \o short \o Digits(n)
    IN  IF name \in NodeSet(g) THEN SourceName(g, short, n + 1) ELSE name

\* Graph._link_parents
_link_parents(g, pipe_name, parents, parent_products) ==
    [g EXCEPT !.edges = @ \o [i \in 1..Len(parents) |->
                                <<parents[i], pipe_name, parent_products[i]>>]]

\* G.add_node (lines 213-219) with the dependency annotation (lines 208-211).
add_node(g, decl, mds, products, parent_products, parents) ==
    [g EXCEPT !.nodes = Append(@, decl.name),
              !.data = @ @@ (decl.name :>
                  [pipe |-> decl, make_dependencies_sources |-> mds,
                   products |-> products, parent_products |-> parent_products,
                   dep_source |-> parents])]

\* An add that takes a name twice.
NeverDuplicate(g, name) == FALSE

\* The duplicate-name test of Graph.add (lines 142-144).
IsDuplicate(g, name) == name \in NodeSet(g)

\* Graph.add.  The result holds the graph afterwards and the error raised
\* ("" when the pipe was inserted).
RECURSIVE add(_, _, _)
add(g, decl, mds) ==
    LET cfg == RegisterConfigs(g.config_files, decl.param_files, 1)
        g1 == [g EXCEPT !.config_files = cfg.config_files]
        products == _list_local_pipe_products(decl)
        keys == [i \in 1..Len(decl.deps) |-> decl.deps[i].key]
        parent_products == [i \in 1..Len(decl.deps) |-> ProductPath(decl.deps[i].prod)]
        parents == get_parents_from_products(g1, parent_products)
        idx == {i \in 1..Len(parents) : parents[i] = None}
        missing == [k \in 1..Cardinality(idx) |->
                      parent_products[CHOOSE i \in idx :
                          Cardinality({j \in idx : j < i}) = k - 1]]
        name == SourceName(g1, LastSegment(decl.name), 0)
        src == add(g1, SourceDecl(name, missing), FALSE)
        g2 == IF mds /\ idx # {} THEN src.G ELSE g1
        parents2 == [i \in 1..Len(parents) |->
                       IF mds /\ i \in idx THEN name ELSE parents[i]]
    IN  IF IsDuplicate(g, decl.name)
            THEN [G |-> g, err |-> "DuplicatePipe"]
        ELSE IF cfg.raised
            THEN [G |-> g1, err |-> "DuplicateConfig"]
        ELSE IF \E i \in 1..Len(products) : _prevent_nested_products(g1, products[i])
            THEN [G |-> g1, err |-> "NestedProduct"]
        ELSE IF \E i \in 1..Len(keys) : keys[i] \in Attrs(decl)
            THEN [G |-> g1, err |-> "AttributeError"]
        ELSE IF mds /\ idx # {} /\ src.err # ""
            THEN [G |-> src.G, err |-> src.err]
        ELSE IF ~mds /\ idx # {}
            THEN [G |-> g1, err |-> "UnresolvedDependency"]
        ELSE [G |-> _link_parents(
                        add_node(g2, decl, mds, products, parent_products, parents2),
                        decl.name, parents2, parent_products),
              err |-> ""]

\* The successors of a node set along the edges.
Step(g, S) == {g.edges[i][2] : i \in {k \in 1..Len(g.edges) : g.edges[k][1] \in S}}

RECURSIVE ReachFrom(_, _)
ReachFrom(g, S) ==
    LET T == S \cup Step(g, S)
    IN  IF T = S THEN S ELSE ReachFrom(g, T)

\* nx.has_path(G, u, v): v is u or reachable from u.
has_path(g, u, v) == v \in ReachFrom(g, {u})

\* nx.ancestors(G, v): the nodes with a path to v, v itself excluded.
ancestors(g, v) == {u \in NodeSet(g) \ {v} : has_path(g, u, v)}

\* The ancestors in reverse insertion order.
get_lineage_reversed(g, pipe_name) ==
    LET anc == ancestors(g, pipe_name)
        ordered == SelectSeq(g.nodes, LAMBDA n : n \in anc)
    IN  [i \in 1..Len(ordered) |-> ordered[Len(ordered) + 1 - i]]

\* Graph.get_lineage: the ancestors in insertion order.
get_lineage(g, pipe_name) ==
    LET anc == ancestors(g, pipe_name)
    IN  SelectSeq(g.nodes, LAMBDA n : n \in anc)

\* A node that reaches itself along one edge or more.
HasCycle(g) ==
    \E i \in 1..Len(g.edges) : has_path(g, g.edges[i][2], g.edges[i][1])

---------------------------------------------------------------------------
\* warp/globals.py, warp/pipes/attributes.py: where products live

\* A products directory that all sessions share.
shared_product_dir == <<HOME_DIR_DEFAULT, PRODUCTS_DIR_NAME>>

\* globals.product_dir()
product_dir == <<HOME_DIR_DEFAULT, SESSION_ID, PRODUCTS_DIR_NAME>>

\* path.format(warp.globals.product_dir())
RECURSIVE Format(_)
Format(path) ==
    IF path = <<>> THEN <<>>
    ELSE (IF Head(path) = "{}" THEN product_dir ELSE <<Head(path)>>)
            \o Format(Tail(path))

\* os.path.isfile(path) or os.path.isdir(path), files being the files on disk
Exists(files, path) == \E f \in files : StartsWith(f, path)

\* Graph.save: the node names in insertion order with their add flag.
save(g) ==
    [i \in 1..Len(g.nodes) |->
        [name |-> g.nodes[i],
         depends_on_source_products |->
            g.data[g.nodes[i]].make_dependencies_sources]]

\* Graph.load: import each saved name as a module and add it again.  The
\* name of a Source object is not a module.
RECURSIVE load_from(_, _, _)
load_from(g, pipe_info, i) ==
    IF i > Len(pipe_info) THEN [G |-> g, err |-> ""]
    ELSE IF pipe_info[i].name \notin DOMAIN Importable
        THEN [G |-> g, err |-> "ModuleNotFoundError"]
    ELSE LET r == add(g, Importable[pipe_info[i].name],
                      pipe_info[i].depends_on_source_products)
         IN  IF r.err # "" THEN r ELSE load_from(r.G, pipe_info, i + 1)

load(pipe_info) == load_from(EmptyGraph, pipe_info, 1)

\* Graph.get_pipe_name_from_abbreviation
get_pipe_name_from_abbreviation(g, name) ==
    LET matches == SelectSeq(g.nodes,
                       LAMBDA x : IsSubstring(name, x)
                                    /\ ~is_source_pipe(x))
    IN  IF is_source_pipe(name) THEN [name |-> name, err |-> ""]
        ELSE IF \E i \in 1..Len(matches) : matches[i] = name
            THEN [name |-> name, err |-> ""]
        ELSE IF Len(matches) = 0
            THEN [name |-> None, err |-> "ModuleNotFoundError"]
        ELSE IF Len(matches) > 1
            THEN [name |-> None, err |-> "ValueError"]
        ELSE [name |-> matches[1], err |-> ""]

---------------------------------------------------------------------------
\* warp/workspace/workspace.py: the staleness analysis

\* float('inf'): the age of a pipe with no metadata file
INF == 999

Range(seq) == {seq[i] : i \in 1..Len(seq)}

\* Workspace._is_pipe_built: every Product attribute of the pipe exists.
_is_pipe_built(pipe_name) ==
    \A i \in 1..Len(G.data[pipe_name].products) :
        Exists(disk, Format(G.data[pipe_name].products[i]))

\* Workspace._get_pipe_age
_get_pipe_age(pipe_name) == ages[pipe_name]

\* The dependencies <<pipe, i>> of the pipes of a lineage.
DepsOf(lineage) ==
    UNION {{<<p, i>> : i \in 1..Len(G.data[p].pipe.deps)} : p \in Range(lineage)}

\* A test that takes every static dependency, on disk or not.
StaticOnly(d, rebuild_static_products) ==
    /\ ~rebuild_static_products
    /\ G.data[d[1]].pipe.deps[d[2]].prod.static

\* The test of line 764: the dependency is static and is on disk.
StaticPresent(d, rebuild_static_products) ==
    /\ ~rebuild_static_products
    /\ G.data[d[1]].pipe.deps[d[2]].prod.static
    /\ Exists(disk, ProductPath(G.data[d[1]].pipe.deps[d[2]].prod))

\* The nodes of `allowed` with a path to a node of S inside `allowed`.
RECURSIVE ReachTo(_, _)
ReachTo(S, allowed) ==
    LET T == S \cup {G.edges[i][1] :
                        i \in {k \in 1..Len(G.edges) :
                                  /\ G.edges[k][2] \in S
                                  /\ G.edges[k][1] \in allowed}}
    IN  IF T = S THEN S ELSE ReachTo(T, allowed)

\* Lines 757-776: the lineage after the static-product pruning.
PrunedLineage(target, rebuild_static_products) ==
    LET lineage_full == Append(get_lineage(G, target), target)
        deps == DepsOf(lineage_full)
        parents_to_drop ==
            {G.data[d[1]].dep_source[d[2]] :
                d \in {e \in deps : StaticPresent(e, rebuild_static_products)}}
        parents_to_keep ==
            {G.data[d[1]].dep_source[d[2]] :
                d \in {e \in deps : ~StaticPresent(e, rebuild_static_products)}}
        lineage == SelectSeq(lineage_full,
                       LAMBDA p : p \notin (parents_to_drop \ parents_to_keep))
        component == ReachTo({target}, Range(lineage))
    IN  IF link_static_products
        THEN SelectSeq(lineage, LAMBDA p : p \in component)
        ELSE lineage_full

\* An analysis that forces no parent.
NoParentsRebuild(target) == {}

\* Lines 779-781: the direct parents of the target whose product is kept in
\* memory only.
parents_rebuild(target) ==
    {G.data[target].dep_source[i] :
        i \in {k \in 1..Len(G.data[target].pipe.deps) :
                  G.data[target].pipe.deps[k].prod.save = "none"}}

\* A chronology test that compares a pipe with every earlier pipe of the
\* lineage, connected to it or not.
ChronologyByOrder(lineage, i) ==
    \E j \in 1..(i - 1) : ages[lineage[i]] < ages[lineage[j]]

\* An analysis without the chronology test.
NoChronology(lineage, i) == FALSE

\* Lines 791-798: an earlier pipe of the lineage is newer and has a path to
\* this one.
ChronologyViolation(lineage, i) ==
    \E j \in 1..(i - 1) :
        /\ ages[lineage[i]] < ages[lineage[j]]
        /\ has_path(G, lineage[j], lineage[i])

\* Lines 786-801
bad_pipes(target, lineage) ==
    {lineage[i] : i \in {k \in 1..Len(lineage) :
        \/ _get_pipe_age(lineage[k]) = INF
        \/ ChronologyViolation(lineage, k)
        \/ lineage[k] \in parents_rebuild(target)
        \/ ~_is_pipe_built(lineage[k])}}

\* An analysis that returns the bad pipes and the always_build pipes of the
\* whole graph.
gap_pipes_of_graph(target, always_build, rebuild_static_products) ==
    LET lineage == PrunedLineage(target, rebuild_static_products)
        bad == bad_pipes(target, lineage)
    IN  SelectSeq(G.nodes, LAMBDA p : p \in bad \cup always_build)

\* Workspace._gap_pipes
_gap_pipes(target, always_build, rebuild_static_products) ==
    LET lineage_full == Append(get_lineage(G, target), target)
        lineage == PrunedLineage(target, rebuild_static_products)
        bad == bad_pipes(target, lineage)
    IN  SelectSeq(lineage_full, LAMBDA p : p \in bad \cup always_build)

---------------------------------------------------------------------------
\* warp/workspace/workspace.py, warp/pipes/pipes.py: building one pipe

\* What a build leaves behind: the files and records it can write.
Persisted ==
    [ages |-> ages, snap |-> snap, params_yml |-> params_yml,
     srcsnap |-> srcsnap, disk |-> disk, meta_warp |-> meta_warp, now |-> now]

\* What running a pipe's action can do: return normally, with the custom
\* writers of its products creating their files ("ok") or not ("unwritten"),
\* or raise ("raise").
Outcomes == {"ok", "unwritten", "raise"}

\* The product of `source` that @produces registered under the keyword.
Produced(g, source, key) ==
    {i \in 1..Len(g.data[source].pipe.products) :
        /\ g.data[source].pipe.products[i].produced
        /\ g.data[source].pipe.products[i].attr = key}

\* A load that takes no producer for a source pipe.
NeverBindsPath(source) == FALSE

\* Lines 95-96 of Pipe.load_products: the producer annotated on the dependency
\* is a source pipe.
BindsPath(source) == is_source_pipe(source)

\* Pipe.load_products, from dependency i on: the error it raises, "" if none.
RECURSIVE load_products(_, _, _, _)
load_products(g, files, pipe_name, i) ==
    IF i > Len(g.data[pipe_name].pipe.deps) THEN ""
    ELSE LET key == g.data[pipe_name].pipe.deps[i].key
             source == g.data[pipe_name].dep_source[i]
             found == Produced(g, source, key)
             p == g.data[source].pipe.products[CHOOSE j \in found : TRUE]
         IN  IF BindsPath(source)
                 THEN load_products(g, files, pipe_name, i + 1)
             ELSE IF found = {} THEN "AttributeError"
             ELSE IF p.save = "pickle" /\ Format(ProductPath(p)) \notin files
                 THEN "FileNotFoundError"
             ELSE load_products(g, files, pipe_name, i + 1)

\* What Pipe.load_products sets the attribute of dependency i to (lines
\* 93-108): the path of the dependency itself, with nothing read, when the
\* producer is a source pipe; else the value of the producer's product,
\* read from its file unless it is kept in memory.
Bound(g, pipe_name, i) ==
    LET dep == g.data[pipe_name].pipe.deps[i]
        source == g.data[pipe_name].dep_source[i]
        p == g.data[source].pipe.products[
                CHOOSE j \in Produced(g, source, dep.key) : TRUE]
    IN  IF BindsPath(source)
        THEN [key |-> dep.key, kind |-> "path", of |-> ProductPath(dep.prod),
              read |-> FALSE]
        ELSE [key |-> dep.key, kind |-> "value", of |-> Format(ProductPath(p)),
              read |-> p.save # "none"]

\* The attributes a completed load_products has set, one per dependency.
Bindings(g, pipe_name) ==
    [i \in 1..Len(g.data[pipe_name].pipe.deps) |-> Bound(g, pipe_name, i)]

\* The pipes that declare a product with save=False.
KeepsInMemory(g, pipe_name) ==
    \E i \in 1..Len(g.data[pipe_name].pipe.products) :
        g.data[pipe_name].pipe.products[i].save = "none"

\* The value Pipe.load_products binds each dependency to (lines 96-108), in a
\* process whose save=False products hold the values given in held: the
\* path for a source pipe's product, the deserialized file for a saved
\* product, and for a save=False product what p.value is in this process:
\* "initial" as Product.__init__ left it (attributes.py 279-281: the
\* product's own path), "assigned" by the producer's action, or "cleared"
\* (None) by Pipe.clear_all.
Observed(g, pipe_name, held) ==
    [i \in 1..Len(g.data[pipe_name].pipe.deps) |->
        IF BindsPath(g.data[pipe_name].dep_source[i]) THEN "path"
        ELSE IF Bound(g, pipe_name, i).read THEN "deserialized"
        ELSE held[g.data[pipe_name].dep_source[i]]]

\* A build that goes on after its action raised.
ActionIgnored(oc) == FALSE

\* Lines 262-267 of Workspace.build: an exception of the action ends the
\* build.  (The run of a Source's Main is empty and raises nothing.)
ActionAborts(oc) == oc = "raise"

\* Pipe.save_products: the files written for the @produces products.  The
\* products of a Source's Main are registered under no pipe name.
save_products(g, pipe_name, oc) ==
    {Format(ProductPath(g.data[pipe_name].pipe.products[i])) :
        i \in {k \in 1..Len(g.data[pipe_name].pipe.products) :
            /\ g.data[pipe_name].pipe.products[k].produced
            /\ \/ g.data[pipe_name].pipe.products[k].save = "pickle"
               \/ /\ g.data[pipe_name].pipe.products[k].save = "custom"
                  /\ oc = "ok"}}

\* Lines 273-281 of Workspace.build: a promised product is not on disk.
PromiseBroken(g, files, pipe_name) ==
    \E i \in 1..Len(g.data[pipe_name].pipe.products) :
        /\ g.data[pipe_name].pipe.products[i].produced
        /\ g.data[pipe_name].pipe.products[i].save # "none"
        /\ ~Exists(files, Format(ProductPath(g.data[pipe_name].pipe.products[i])))

\* Workspace._log_pipe_metadata: metadata.csv with the timestamp, then the
\* parameter snapshot (utils.save_config raises on a value of a type it does
\* not take), then HOME/meta.warp, then the source snapshot.
_log_pipe_metadata(g, pipe_name, st, x) ==
    LET timestamp == st.now + 1
        logged == [st EXCEPT !.now = timestamp, !.ages[pipe_name] = timestamp]
    IN  IF ~g.data[pipe_name].pipe.params_ok
        THEN [st |-> logged, err |-> "RuntimeError"]
        ELSE [st |-> [logged EXCEPT !.snap[pipe_name] = timestamp,
                                    !.params_yml[pipe_name] = x,
                                    !.meta_warp = SESSION_ID,
                                    !.srcsnap[pipe_name] = timestamp],
              err |-> ""]

\* Lines 235-256 of Workspace.build: the value of Parameter x the action runs
\* with.  The config files give x no value; a config given to build does,
\* and else the Parameter keeps the value it has in the process.  A Source's
\* Main has no parameters.
load_parameters(pipe_name, config, mem) ==
    IF is_source_pipe(pipe_name) THEN ""
    ELSE IF \E kv \in config : kv[1] = "x"
        THEN (CHOOSE kv \in config : kv[1] = "x")[2]
    ELSE mem[pipe_name]

\* Workspace.build on graph g in the persisted state st, with the config
\* given, the Parameters of the process as they are in mem and its
\* save=False products as they are in held.  assigned tells that the action
\* returned, having given the pipe's products their values; an action that
\* raises has assigned none.
build(g, warp_pipe_name, oc, st, config, mem, held) ==
    LET res == get_pipe_name_from_abbreviation(g, warp_pipe_name)
        pipe_name == res.name
        loaded == load_products(g, st.disk, pipe_name, 1)
        saved == [st EXCEPT !.disk = @ \cup save_products(g, pipe_name, oc)]
        raised == oc = "raise" /\ ~is_source_pipe(pipe_name)
        x == load_parameters(pipe_name, config, mem)
        fail(e, s) == [st |-> s, err |-> e, pipe |-> pipe_name,
                       action_raised |-> FALSE, bound |-> <<>>, x |-> "",
                       seen |-> <<>>, assigned |-> FALSE]
        ran(e, s) == [st |-> s, err |-> e, pipe |-> pipe_name,
                      action_raised |-> raised,
                      bound |-> Bindings(g, pipe_name), x |-> x,
                      seen |-> Observed(g, pipe_name, held),
                      assigned |-> ~raised]
    IN  IF res.err # "" THEN fail(res.err, st)
        ELSE IF pipe_name \notin NodeSet(g) THEN fail("KeyError", st)
        ELSE IF loaded # "" THEN fail(loaded, st)
        ELSE IF raised /\ ActionAborts(oc) THEN ran("PipeActionFailure", st)
        ELSE IF PromiseBroken(g, saved.disk, pipe_name)
            THEN ran("ProductNotProduced", saved)
        ELSE LET logged == _log_pipe_metadata(g, pipe_name, saved, x)
             IN  ran(logged.err, logged.st)

\* Workspace.build in a process that has imported the modules of graph g and
\* run no action: every Parameter and every Product holds its initial value.
build_fresh(g, target, oc, st) ==
    build(g, target, oc, st, NoConfig,
          [n \in NodeSet(g) |-> ParamDefault],
          [n \in NodeSet(g) |-> "initial"])

\* warp/workspace/build_pipe.py: the child process of a backfill.  It opens
\* the session with graph=None, which loads graph.pkl, and builds the target.
\* The process is new: it has imported the modules of the graph and run no
\* action, so every Parameter and every Product holds its initial value.
build_pipe(target, oc, st) ==
    LET loaded == load(graph_pkl.pipe_info)
    IN  IF ~graph_pkl.exists
            THEN [st |-> st, err |-> "FileNotFoundError", pipe |-> target,
                  action_raised |-> FALSE, bound |-> <<>>, x |-> "",
                  seen |-> <<>>, assigned |-> FALSE]
        ELSE IF loaded.err # ""
            THEN [st |-> st, err |-> loaded.err, pipe |-> target,
                  action_raised |-> FALSE, bound |-> <<>>, x |-> "",
                  seen |-> <<>>, assigned |-> FALSE]
        ELSE build_fresh(loaded.G, target, oc, st)

---------------------------------------------------------------------------
\* The operation in progress or last finished, for the properties to read.
\* session and clear_all are the arguments of a session operation; spawned
\* counts the child processes a backfill has started.
\* log holds the builds of a backfill in order: a "start" entry when a build
\* begins and an "exit" entry, with its exit code and the timestamp it left
\* in the pipe's metadata, when it ends.
NoCall ==
    [op |-> "none", target |-> None, always |-> {},
     build_target_pipe |-> TRUE, rebuild_all |-> FALSE,
     rebuild_static_products |-> FALSE, traj |-> <<>>, idx |-> 1,
     log |-> <<>>, status |-> "done", err |-> "", child_err |-> "",
     action_raised |-> FALSE, bound |-> <<>>,
     session |-> "", clear_all |-> FALSE, spawned |-> 0, seen |-> <<>>]

StartEntry(pipe_name) ==
    [ev |-> "start", pipe |-> pipe_name, rc |-> 0, time |-> 0, x |-> ""]

ExitEntry(r) ==
    [ev |-> "exit", pipe |-> r.pipe, rc |-> IF r.err = "" THEN 0 ELSE 1,
     time |-> IF r.pipe \in DOMAIN r.st.ages THEN r.st.ages[r.pipe] ELSE INF,
     x |-> r.x]

\* The Parameters of the Workspace's process after a build in it.
Loaded(r) ==
    IF r.x = "" THEN parameters ELSE [parameters EXCEPT ![r.pipe] = r.x]

\* The save=False products of the Workspace's process after a build in it
\* (lines 289-299 of Workspace.build): a build called without
\* warp_backfill_call ends with Pipe.clear_all, which sets them to None; a
\* build that raises after its action returned leaves them assigned.
Held(r) ==
    IF r.pipe \notin NodeSet(G) \/ ~r.assigned THEN values
    ELSE IF ~KeepsInMemory(G, r.pipe) THEN values
    ELSE [values EXCEPT ![r.pipe] = IF r.err = "" THEN "cleared" ELSE "assigned"]

\* Lines 200-204 of Workspace.backfill: after the last child, clear_all on
\* every pipe of the trajectory.
Cleanup(traj) ==
    [n \in DOMAIN values |->
        IF n \in Range(traj) /\ KeepsInMemory(G, n) THEN "cleared" ELSE values[n]]

\* The state the files and records are left in.
Apply(st) ==
    /\ ages' = st.ages
    /\ snap' = st.snap
    /\ params_yml' = st.params_yml
    /\ srcsnap' = st.srcsnap
    /\ disk' = st.disk
    /\ meta_warp' = st.meta_warp
    /\ now' = st.now

---------------------------------------------------------------------------
\* Building a graph: a sequence of add calls, accepted or rejected.

InitGraph ==
    /\ G = EmptyGraph
    /\ phase = "graph"
    /\ link_static_products = FALSE
    /\ ages = <<>> /\ snap = <<>> /\ srcsnap = <<>>
    /\ params_yml = <<>> /\ parameters = <<>> /\ values = <<>>
    /\ disk = {}
    /\ meta_warp = ""
    /\ graph_pkl = [exists |-> FALSE, pipe_info |-> <<>>]
    /\ now = 0
    /\ pc = "idle"
    /\ call = NoCall
    /\ SESSION_ID = "s1"
    /\ others = <<>>

\* graph + pipe (make_dependencies_sources false) or graph @ pipe (true)
Add(pipe, make_dependencies_sources) ==
    /\ phase = "graph"
    /\ Len(G.nodes) < MaxNodes
    /\ LET r == add(G, Importable[pipe], make_dependencies_sources)
       IN  /\ G' = r.G
           /\ call' = [NoCall EXCEPT !.op = "add",
                                     !.status = IF r.err = "" THEN "done" ELSE "raised",
                                     !.err = r.err]
    /\ UNCHANGED <<phase, link_static_products, ages, snap, params_yml,
                   parameters, values, srcsnap, disk,
                   meta_warp, graph_pkl, now, pc, SESSION_ID, others>>

NextGraph == \E pipe \in ModuleNames, mds \in BOOLEAN : Add(pipe, mds)

SpecGraph == InitGraph /\ [][NextGraph]_vars

\* Building a graph of m.A, m.B, m.C and m.G, the pipe whose add can fail
\* after its config file was looked at.
NextRejected ==
    \E pipe \in {M("A"), M("B"), M("C"), M("G")}, mds \in BOOLEAN : Add(pipe, mds)

SpecRejected == InitGraph /\ [][NextRejected]_vars

---------------------------------------------------------------------------
\* A session: Workspace(graph=key) on a registered graph builder, then
\* backfill, build and clear_cache calls.

Plus(pipe) == [pipe |-> pipe, mds |-> FALSE]
At(pipe) == [pipe |-> pipe, mds |-> TRUE]

\* The registered graph builders (warp.globals.register_graph).
Builders ==
    {<<Plus(M("A")), Plus(M("B")), Plus(M("D"))>>,
     <<Plus(M("C")), Plus(M("F"))>>,
     <<Plus(M("N")), Plus(M("E"))>>,
     <<Plus(M("P")), Plus(M("Q"))>>,
     <<At(M("S"))>>,
     <<Plus(M("R"))>>}

RECURSIVE RunBuilder(_, _, _)
RunBuilder(b, g, i) ==
    IF i > Len(b) THEN g
    ELSE RunBuilder(b, add(g, Importable[b[i].pipe], b[i].mds).G, i + 1)

\* The sessions opened: each builder without link_static_products, and the
\* builder with a static product with it as well.
Sessions ==
    {[builder |-> b, link_static_products |-> FALSE] : b \in Builders}
        \cup {[builder |-> <<Plus(M("C")), Plus(M("F"))>>,
               link_static_products |-> TRUE]}

\* Workspace.__init__ with a graph key, in a home directory with no session.
Open(s) ==
    /\ G = RunBuilder(s.builder, EmptyGraph, 1)
    /\ link_static_products = s.link_static_products
    /\ phase = "ws"
    /\ ages = [n \in NodeSet(G) |-> INF]
    /\ snap = [n \in NodeSet(G) |-> 0]
    /\ params_yml = [n \in NodeSet(G) |-> ""]
    /\ parameters = [n \in NodeSet(G) |-> ParamDefault]
    /\ values = [n \in NodeSet(G) |-> "initial"]
    /\ srcsnap = [n \in NodeSet(G) |-> 0]
    /\ disk = {}
    /\ meta_warp = ""
    /\ graph_pkl = [exists |-> TRUE, pipe_info |-> save(G)]
    /\ now = 0
    /\ pc = "idle"
    /\ call = NoCall
    /\ SESSION_ID = "s1"
    /\ others = <<>>

Init == \E s \in Sessions : Open(s)

\* The names a caller passes: the last segment of a pipe's name (matched
\* fuzzily), a string that matches several pipes and one that matches none.
UserNames ==
    {LastSegment(n) : n \in NodeSet(G)} \cup {<<"m", ".">>, <<"z", "z">>}

\* The flags of a backfill.
Flags(build_target_pipe, rebuild_all, rebuild_static_products) ==
    [build_target_pipe |-> build_target_pipe, rebuild_all |-> rebuild_all,
     rebuild_static_products |-> rebuild_static_products]

\* The arguments of a backfill besides its target: the default flags with
\* no configs or with one key in configs (its keys are given in insertion
\* order), and each flag flipped with no configs.
BackfillArgs ==
    {[configs |-> <<>>, flags |-> Flags(TRUE, FALSE, FALSE)]}
        \cup {[configs |-> <<n>>, flags |-> Flags(TRUE, FALSE, FALSE)] : n \in UserNames}
        \cup {[configs |-> <<>>, flags |-> f] :
                f \in {Flags(FALSE, FALSE, FALSE), Flags(TRUE, TRUE, FALSE),
                       Flags(TRUE, FALSE, TRUE)}}

\* A call that ignores the child's exit code.
call_ignoring_exit(rc) == FALSE

\* subprocess.check_call raises CalledProcessError when the child exits
\* non-zero (lines 190-198 of Workspace.backfill).
check_call(rc) == rc # 0

\* Workspace.backfill up to its loop over the trajectory (lines 161-187).
\* With rebuild_all the trajectory is a list of names, and unpacking a name
\* in the loop header raises ValueError unless it has two characters; no
\* pipe name here has.
Backfill(warp_pipe_name, configs, flags) ==
    /\ phase = "ws" /\ pc = "idle" /\ now < MaxTime
    /\ LET keys == [i \in 1..Len(configs) |->
                      get_pipe_name_from_abbreviation(G, configs[i])]
           badkeys == {i \in 1..Len(keys) : keys[i].err # ""}
           firstbad == CHOOSE i \in badkeys : \A j \in badkeys : i <= j
           t == get_pipe_name_from_abbreviation(G, warp_pipe_name)
           always_build == {keys[i].name : i \in 1..Len(keys)}
           gap_pipes == IF flags.rebuild_all
                        THEN get_lineage(G, t.name)
                        ELSE _gap_pipes(t.name, always_build,
                                        flags.rebuild_static_products)
           c == [NoCall EXCEPT !.op = "backfill", !.target = t.name,
                    !.always = always_build,
                    !.build_target_pipe = flags.build_target_pipe,
                    !.rebuild_all = flags.rebuild_all,
                    !.rebuild_static_products = flags.rebuild_static_products,
                    !.traj = gap_pipes, !.status = "running"]
           raised(e) == [NoCall EXCEPT !.op = "backfill", !.status = "raised",
                                       !.err = e]
       IN  IF badkeys # {}
               THEN call' = raised(keys[firstbad].err) /\ pc' = "idle"
           ELSE IF t.err # ""
               THEN call' = raised(t.err) /\ pc' = "idle"
           ELSE IF t.name \notin NodeSet(G)
               THEN call' = raised("NetworkXError") /\ pc' = "idle"
           ELSE IF gap_pipes = <<>> /\ flags.build_target_pipe
               THEN call' = c /\ pc' = "target"
           ELSE IF gap_pipes = <<>>
               THEN call' = [c EXCEPT !.status = "done"] /\ pc' = "idle"
           ELSE IF flags.rebuild_all
               THEN call' = [c EXCEPT !.status = "raised", !.err = "ValueError"]
                    /\ pc' = "idle"
           ELSE call' = c /\ pc' = "loop"
    /\ UNCHANGED <<G, phase, link_static_products, ages, snap, params_yml,
                   parameters, values, srcsnap, disk,
                   meta_warp, graph_pkl, now, SESSION_ID, others>>

\* Lines 180-184: with an empty trajectory backfill builds the target itself.
\* What backfill records of the build of its target, whose result is r.
TargetBuilt(r) ==
    /\ Apply(r.st)
    /\ parameters' = Loaded(r)
    /\ values' = Held(r)
    /\ call' = [call EXCEPT
           !.log = @ \o <<StartEntry(call.target), ExitEntry(r)>>,
           !.status = IF r.err = "" THEN "done" ELSE "raised",
           !.err = r.err,
           !.action_raised = r.action_raised,
           !.bound = r.bound,
           !.seen = r.seen]

BackfillTarget(oc) ==
    /\ pc = "target" /\ now < MaxTime
    /\ TargetBuilt(build(G, call.target, oc, Persisted, NoConfig, parameters,
                         values))
    /\ pc' = "idle"
    /\ UNCHANGED <<G, phase, link_static_products, graph_pkl, SESSION_ID,
                   others>>

\* Lines 189-195: the next pipe of the trajectory is handed to a child process.
Spawn ==
    /\ pc = "loop"
    /\ pc' = "child"
    /\ call' = [call EXCEPT !.log = Append(@, StartEntry(call.traj[call.idx])),
                            !.action_raised = FALSE, !.bound = <<>>,
                            !.seen = <<>>, !.spawned = @ + 1]
    /\ UNCHANGED <<G, phase, link_static_products, ages, snap, params_yml,
                   parameters, values, srcsnap, disk,
                   meta_warp, graph_pkl, now, SESSION_ID, others>>

\* The child runs build_pipe.py and exits; backfill goes on with the next
\* pipe, returns after the last, or halts on a non-zero exit (lines 196-198).
\* What backfill does when the child whose build gave r exits with entry e;
\* last tells that it was the last pipe of the trajectory.
ChildExited(r, e, last) ==
    /\ Apply(r.st)
    /\ call' = [call EXCEPT
           !.log = Append(@, e),
           !.idx = IF check_call(e.rc) THEN @ ELSE @ + 1,
           !.status = IF check_call(e.rc) THEN "raised"
                      ELSE IF last THEN "done" ELSE "running",
           !.err = IF check_call(e.rc) THEN "CalledProcessError" ELSE "",
           !.child_err = r.err,
           !.action_raised = r.action_raised,
           !.bound = r.bound,
           !.seen = r.seen]
    /\ pc' = IF check_call(e.rc) \/ last THEN "idle" ELSE "loop"
    /\ values' = IF ~check_call(e.rc) /\ last THEN Cleanup(call.traj)
                  ELSE values

\* check_call returns for the child whose build gave r.
Reaped(r) == ChildExited(r, ExitEntry(r), call.idx = Len(call.traj))

Exit(oc) ==
    /\ pc = "child" /\ now < MaxTime
    /\ Reaped(build_pipe(call.traj[call.idx], oc, Persisted))
    /\ UNCHANGED <<G, phase, link_static_products, parameters, graph_pkl,
                   SESSION_ID, others>>

\* Workspace.build called by the user, with or without a config.
\* What a build called by the user leaves in the process; r is its result.
Built(r) ==
    /\ Apply(r.st)
    /\ parameters' = Loaded(r)
    /\ values' = Held(r)
    /\ call' = [NoCall EXCEPT
           !.op = "build", !.target = r.pipe,
           !.log = <<StartEntry(r.pipe), ExitEntry(r)>>,
           !.status = IF r.err = "" THEN "done" ELSE "raised",
           !.err = r.err,
           !.action_raised = r.action_raised,
           !.bound = r.bound,
           !.seen = r.seen]

Build(warp_pipe_name, oc, config) ==
    /\ phase = "ws" /\ pc = "idle" /\ now < MaxTime
    /\ Built(build(G, warp_pipe_name, oc, Persisted, config, parameters,
                   values))
    /\ pc' = "idle"
    /\ UNCHANGED <<G, phase, link_static_products, graph_pkl, SESSION_ID,
                   others>>

\* The session ids a caller passes; one of them is the name of the directory
\* of the static products, which lies under HOME as the sessions do.
SessionIds == {"s1", "s2", STATIC_PRODUCTS_DIR_NAME}

\* session_id=None
NoSession == ""

\* str(time.time()): the session id minted at tick n of the clock.
Minted(n) ==
    CASE n = 0 -> "t0" [] n = 1 -> "t1" [] n = 2 -> "t2" [] n = 3 -> "t3"
      [] n = 4 -> "t4" [] OTHER -> "t5"

\* What the directory of the current session holds besides its products.
SessionRecords ==
    [ages |-> ages, snap |-> snap, params_yml |-> params_yml,
     srcsnap |-> srcsnap, graph_pkl |-> graph_pkl]

\* Home.session_dir of a session that has no directory yet: products/ and
\* timestamp.warp, no pipe cache directory and no graph.pkl.
NewSession ==
    [ages |-> [n \in NodeSet(G) |-> INF],
     snap |-> [n \in NodeSet(G) |-> 0],
     params_yml |-> [n \in NodeSet(G) |-> ""],
     srcsnap |-> [n \in NodeSet(G) |-> 0],
     graph_pkl |-> [exists |-> FALSE, pipe_info |-> <<>>]]

\* A test that takes every id for a session.
AnyIdValid(session_id) == TRUE

\* Home.is_valid_session_id: HOME/<session_id> is a directory.
is_valid_session_id(session_id) ==
    \/ session_id = SESSION_ID
    \/ session_id \in DOMAIN others
    \/ Exists(disk, <<HOME_DIR_DEFAULT, session_id>>)

\* The records found in the directory HOME/<session_id>.
RecordsOf(session_id) ==
    IF session_id = SESSION_ID THEN SessionRecords
    ELSE IF session_id \in DOMAIN others THEN others[session_id]
    ELSE NewSession

\* The records of the current session become r.
SetRecords(r) ==
    /\ ages' = r.ages
    /\ snap' = r.snap
    /\ params_yml' = r.params_yml
    /\ srcsnap' = r.srcsnap
    /\ graph_pkl' = r.graph_pkl

\* self.home = Home(self.home.path, session_id=session_id): the session
\* becomes the current one, and the directory of the one that was stays.
Switch(session_id) ==
    /\ SESSION_ID' = session_id
    /\ others' = [t \in (DOMAIN others \cup {SESSION_ID}) \ {session_id} |->
                    RecordsOf(t)]
    /\ SetRecords(RecordsOf(session_id))

\* Workspace._load_parameters_from_this_session: the Parameters take the
\* values of the parameter snapshots found in the session.
_load_parameters_from_this_session(r) ==
    [n \in NodeSet(G) |->
        IF r.params_yml[n] # "" THEN r.params_yml[n] ELSE parameters[n]]

\* Workspace.load_session, called as operation op.
load_session(session_id, op) ==
    IF ~is_valid_session_id(session_id)
    THEN /\ call' = [NoCall EXCEPT !.op = op, !.session = session_id,
                                   !.status = "raised",
                                   !.err = "FileNotFoundError"]
         /\ UNCHANGED <<SESSION_ID, others, ages, snap, params_yml, srcsnap,
                        graph_pkl, parameters, values>>
    ELSE /\ call' = [NoCall EXCEPT !.op = op, !.session = session_id]
         /\ IF session_id = SESSION_ID
            THEN UNCHANGED <<SESSION_ID, others, ages, snap, params_yml,
                             srcsnap, graph_pkl>>
            ELSE Switch(session_id)
         /\ parameters' =
                _load_parameters_from_this_session(RecordsOf(session_id))
         /\ UNCHANGED values

LoadSession(session_id) ==
    /\ phase = "ws" /\ pc = "idle"
    /\ load_session(session_id, "load_session")
    /\ UNCHANGED <<G, phase, link_static_products, disk, meta_warp, now, pc>>

\* Workspace.create_session
CreateSession(session_id) ==
    /\ phase = "ws" /\ pc = "idle"
    /\ IF is_valid_session_id(session_id)
       THEN /\ call' = [NoCall EXCEPT !.op = "create_session",
                                      !.session = session_id,
                                      !.status = "raised",
                                      !.err = "FileExistsError"]
            /\ UNCHANGED <<SESSION_ID, others, ages, snap, params_yml,
                           srcsnap, graph_pkl>>
       ELSE /\ call' = [NoCall EXCEPT !.op = "create_session",
                                      !.session = session_id]
            /\ Switch(session_id)
    /\ UNCHANGED <<G, phase, link_static_products, parameters, values, disk,
                   meta_warp, now, pc>>

\* Workspace.resume
Resume ==
    /\ phase = "ws" /\ pc = "idle"
    /\ IF meta_warp = "" \/ meta_warp = SESSION_ID
       THEN /\ call' = [NoCall EXCEPT !.op = "resume", !.session = meta_warp]
            /\ UNCHANGED <<SESSION_ID, others, ages, snap, params_yml,
                           srcsnap, graph_pkl, parameters, values>>
       ELSE load_session(meta_warp, "resume")
    /\ UNCHANGED <<G, phase, link_static_products, disk, meta_warp, now, pc>>

\* A removal that takes the whole home directory with it.
rmtree_home(files, path) == {f \in files : ~StartsWith(f, <<path[1]>>)}

\* A removal that leaves every file in place.
rmtree_nothing(files, path) == files

\* shutil.rmtree(path) (lines 391-394 of clear_cache): the files left.
rmtree(files, path) == {f \in files : ~StartsWith(f, path)}

\* Workspace.clear_cache.  The directory removed is HOME with clear_all, else
\* the directory of the session named, or of the current session when none
\* is named; then create_session is called with the id of the session
\* cleared if that is the current one, and with clear_all with the id given
\* or else an id minted from the clock.
clear_cache(session_id, clear_all) ==
    LET id == IF session_id # NoSession THEN session_id
              ELSE IF clear_all THEN Minted(now + 1)
              ELSE SESSION_ID
        path == IF clear_all THEN <<HOME_DIR_DEFAULT>>
                ELSE <<HOME_DIR_DEFAULT, id>>
        c == [NoCall EXCEPT !.op = "clear_cache", !.session = id,
                            !.clear_all = clear_all]
    IN  /\ phase = "ws" /\ pc = "idle"
        /\ (session_id = NoSession /\ clear_all) => now < MaxTime
        /\ IF session_id # NoSession /\ ~clear_all /\ ~is_valid_session_id(id)
           THEN /\ call' = [c EXCEPT !.status = "raised",
                                     !.err = "AssertionError"]
                /\ UNCHANGED <<SESSION_ID, others, ages, snap, params_yml,
                               srcsnap, graph_pkl, disk, meta_warp, now>>
           ELSE /\ call' = c
                /\ disk' = rmtree(disk, path)
                /\ meta_warp' = IF clear_all THEN "" ELSE meta_warp
                /\ now' = IF session_id = NoSession /\ clear_all
                          THEN now + 1 ELSE now
                /\ IF clear_all
                   THEN /\ SESSION_ID' = id
                        /\ others' = <<>>
                        /\ SetRecords(NewSession)
                   ELSE IF id = SESSION_ID
                   THEN /\ SetRecords(NewSession)
                        /\ UNCHANGED <<SESSION_ID, others>>
                   ELSE /\ others' = [t \in DOMAIN others \ {id} |-> others[t]]
                        /\ UNCHANGED <<SESSION_ID, ages, snap, params_yml,
                                       srcsnap, graph_pkl>>
        /\ UNCHANGED <<G, phase, link_static_products, parameters, values, pc>>

\* Workspace.clear_cache(): the directory of the current session is removed
\* and a session of the same id is created; the graph file is not written
\* again.
ClearCache == clear_cache(NoSession, FALSE)

Next ==
    \/ \E n \in UserNames, args \in BackfillArgs :
          Backfill(n, args.configs, args.flags)
    \/ \E oc \in Outcomes : BackfillTarget(oc)
    \/ Spawn
    \/ \E oc \in Outcomes : Exit(oc)
    \/ \E n \in UserNames, oc \in Outcomes : Build(n, oc, NoConfig)
    \/ ClearCache

Spec == Init /\ [][Next]_vars

\* A session on the graph m.A -> m.B in which the caller also gives
\* Workspace.build a config.
InitConfig ==
    Open([builder |-> <<Plus(M("A")), Plus(M("B"))>>,
          link_static_products |-> FALSE])

NextConfig ==
    \/ Next
    \/ \E n \in UserNames, oc \in Outcomes : Build(n, oc, Override)

SpecConfig == InitConfig /\ [][NextConfig]_vars

\* A Workspace on the graph m.C -> m.F (m.C's product is static, m.F's is
\* not) whose caller builds pipes, named by the last segment of their name,
\* and moves between sessions.  Neither pipe has a custom writer, so the
\* action of a build returns ("ok") or raises.
InitSessions ==
    Open([builder |-> <<Plus(M("C")), Plus(M("F"))>>,
          link_static_products |-> FALSE])

NextSessions ==
    \/ \E n \in {LastSegment(m) : m \in NodeSet(G)}, oc \in {"ok", "raise"} :
          Build(n, oc, NoConfig)
    \/ \E s \in SessionIds : LoadSession(s)
    \/ \E s \in SessionIds : CreateSession(s)
    \/ Resume
    \/ \E s \in SessionIds \cup {NoSession}, clear_all \in BOOLEAN :
          clear_cache(s, clear_all)

SpecSessions == InitSessions /\ [][NextSessions]_vars

\* A Workspace on the diamond m.A -> m.B, m.A -> m.H, m.B -> m.K, m.H -> m.K
\* (added in this order) whose caller builds and backfills pipes, named by
\* the last segment of their name, with the default flags.  No pipe has a
\* custom writer, so an action returns ("ok") or raises.
InitDiamond ==
    Open([builder |-> <<Plus(M("A")), Plus(M("B")), Plus(M("H")), Plus(M("K"))>>,
          link_static_products |-> FALSE])

NextDiamond ==
    \/ \E n \in {LastSegment(m) : m \in NodeSet(G)}, oc \in {"ok", "raise"} :
          Build(n, oc, NoConfig)
    \/ \E n \in {LastSegment(m) : m \in NodeSet(G)} :
          Backfill(n, <<>>, Flags(TRUE, FALSE, FALSE))
    \/ \E oc \in {"ok", "raise"} : BackfillTarget(oc)
    \/ Spawn
    \/ \E oc \in {"ok", "raise"} : Exit(oc)

SpecDiamond == InitDiamond /\ [][NextDiamond]_vars

\* A session on the graph m.A -> m.J, in which the consumer names its
\* dependency by another keyword than the producer's.
InitKeywords ==
    Open([builder |-> <<Plus(M("A")), Plus(M("J"))>>,
          link_static_products |-> FALSE])

SpecKeywords == InitKeywords /\ [][Next]_vars

\* A Workspace with link_static_products on the graph m.W -> m.T, m.T -> m.U
\* (a static product), m.T -> m.V (the static product and another), whose
\* caller builds pipes and backfills them with or without
\* rebuild_static_products.
InitStatic ==
    Open([builder |-> <<Plus(M("W")), Plus(M("T")), Plus(M("U")), Plus(M("V"))>>,
          link_static_products |-> TRUE])

NextStatic ==
    \/ \E n \in {LastSegment(m) : m \in NodeSet(G)}, oc \in {"ok", "raise"} :
          Build(n, oc, NoConfig)
    \/ \E n \in {LastSegment(m) : m \in NodeSet(G)}, rsp \in BOOLEAN :
          Backfill(n, <<>>, Flags(TRUE, FALSE, rsp))
    \/ BackfillTarget("ok")
    \/ Spawn
    \/ Exit("ok")

SpecStatic == InitStatic /\ [][NextStatic]_vars

---------------------------------------------------------------------------
\* Properties

\* The persisted records and files are the same after the step as before.
NothingPersisted ==
    /\ ages' = ages
    /\ snap' = snap
    /\ params_yml' = params_yml
    /\ srcsnap' = srcsnap
    /\ disk' = disk
    /\ meta_warp' = meta_warp

\* The last entry of the log of the current operation.
LastEntry == call.log[Len(call.log)]

\* C1: in every backfill, a pipe of the trajectory is started only after
\* every other pipe of the trajectory with a path to it has been started and
\* has exited.
C1_TrajectoryOrder ==
    call.op = "backfill" =>
        \A j \in 1..Len(call.log) :
            call.log[j].ev = "start" =>
                \A P \in Range(call.traj) \ {call.log[j].pipe} :
                    has_path(G, P, call.log[j].pipe) =>
                        \E i, k \in 1..(j - 1) :
                            /\ i < k
                            /\ call.log[i] = StartEntry(P)
                            /\ call.log[k].ev = "exit"
                            /\ call.log[k].pipe = P

\* A backfill has built a trajectory of three pipes on a chain to the end.
C1_Witness ==
    /\ call.op = "backfill"
    /\ call.status = "done"
    /\ Len(call.traj) = 3
    /\ Len(call.log) = 6
    /\ has_path(G, call.traj[1], call.traj[2])
    /\ has_path(G, call.traj[2], call.traj[3])

\* C2: after a backfill(T) that completed successfully, the trajectory of
\* backfill(T) computed again with no overrides is empty.
C2_Idempotent ==
    (call.op = "backfill" /\ call.status = "done")
        => _gap_pipes(call.target, {}, FALSE) = <<>>

\* C3 (as amended): if Q is a descendant of P, P's recorded build is later
\* than Q's, and the static-product pruning leaves P in Q's lineage (it
\* always does when link_static_products is off), then gap_pipes(Q)
\* contains Q.
C3_StalenessPropagation ==
    phase = "ws" =>
        \A P, Q \in NodeSet(G), rsp \in BOOLEAN :
            (/\ P # Q
             /\ has_path(G, P, Q)
             /\ ages[P] # INF
             /\ ages[Q] < ages[P]
             /\ P \in Range(PrunedLineage(Q, rsp)))
                => Q \in Range(_gap_pipes(Q, {}, rsp))

\* An ancestor has been rebuilt after its descendant was built.
C3_Witness ==
    /\ phase = "ws"
    /\ \E P, Q \in NodeSet(G) :
          /\ P # Q
          /\ has_path(G, P, Q)
          /\ ages[P] # INF
          /\ ages[Q] < ages[P]
          /\ P \in Range(PrunedLineage(Q, FALSE))

\* C3 (as stated): if Q is a descendant of P and P's recorded build is later
\* than Q's, then gap_pipes(Q) contains Q.
C3_AsStated ==
    phase = "ws" =>
        \A P, Q \in NodeSet(G) :
            (/\ P # Q
             /\ has_path(G, P, Q)
             /\ ages[P] # INF
             /\ ages[Q] < ages[P])
                => Q \in Range(_gap_pipes(Q, {}, FALSE))

\* C4: every pipe named by a key of configs is in the trajectory of the
\* backfill.
C4_OverrideForcesRebuild ==
    call.op = "backfill" => call.always \subseteq Range(call.traj)

\* C5: a backfill(T) that completes successfully has built T, and T last.
C5_TargetBuiltLast ==
    (call.op = "backfill" /\ call.status = "done" /\ call.build_target_pipe)
        => /\ call.log # <<>>
           /\ LastEntry.ev = "exit"
           /\ LastEntry.pipe = call.target
           /\ LastEntry.rc = 0

C7_ResumeFromFailed ==
    (call.op = "backfill" /\ call.status = "raised"
        /\ call.err = "CalledProcessError") =>
        LET F == call.traj[call.idx]
            again == _gap_pipes(call.target, call.always,
                                call.rebuild_static_products)
        IN  /\ again # <<>>
            /\ again[1] = F
            /\ \A k \in 1..(call.idx - 1) : call.traj[k] \notin Range(again)

\* C8: a build whose action raises ends with the error raised and leaves
\* the pipe's metadata record, parameter snapshot, source snapshot, the
\* stored products and HOME/meta.warp as they were.
C8_ActionFailurePersistsNothing ==
    [][call'.action_raised =>
          /\ call'.status = "raised"
          /\ LastEntry'.rc # 0
          /\ NothingPersisted]_vars

\* The action of a pipe that had been built before has raised.
C8_Witness ==
    /\ call.action_raised
    /\ call.status = "raised"
    /\ ages[LastEntry.pipe] # INF
    /\ snap[LastEntry.pipe] # 0
    /\ ~PromiseBroken(G, disk, LastEntry.pipe)

\* C9: a build that fails because a promised product is not on disk leaves
\* the pipe's metadata record, its snapshots and the stored products as they
\* were.
C9_BrokenPromisePersistsNothing ==
    [][(call'.err = "ProductNotProduced" \/ call'.child_err = "ProductNotProduced")
          => NothingPersisted]_vars

\* C10: the graph has no cycle, whatever add calls were accepted and
\* rejected.
C10_Acyclic == ~HasCycle(G)

\* A graph with a synthesized source and two edges or more, on which the
\* last add was rejected.
C10_Witness ==
    /\ phase = "graph"
    /\ call.op = "add"
    /\ call.status = "raised"
    /\ Len(G.edges) >= 2
    /\ \E n \in NodeSet(G) : is_source_pipe(n)

\* os.path prefix: path p is path q or a directory above it.
IsPathPrefix(p, q) == StartsWith(q, p)

\* C11: no product path of a pipe of the graph is a product path of another
\* pipe of the graph or a directory above one.
C11_NoNestedProducts ==
    \A P \in NodeSet(G) : \A Q \in NodeSet(G) \ {P} :
        \A i \in 1..Len(G.data[P].products), j \in 1..Len(G.data[Q].products) :
            ~IsPathPrefix(G.data[P].products[i], G.data[Q].products[j])

\* The config files of the pipe at a node.
ConfigsOf(n) ==
    {G.data[n].pipe.param_files[i] : i \in 1..Len(G.data[n].pipe.param_files)}

\* C12: two pipes of the graph declare the same config path only if both
\* declare it multi_use.
C12_ConfigUniqueness ==
    \A P \in NodeSet(G) : \A Q \in NodeSet(G) \ {P} :
        \A f \in ConfigsOf(P), h \in ConfigsOf(Q) :
            f.path = h.path => f.multi_use /\ h.multi_use

\* No node of the graph has the path among its products.
Unproduced(path) ==
    \A n \in NodeSet(G) :
        \A j \in 1..Len(G.data[n].products) : G.data[n].products[j] # path

\* The pipe declares a dependency that no node of the graph produces.
HasUnresolved(decl) ==
    \E i \in 1..Len(decl.deps) : Unproduced(ProductPath(decl.deps[i].prod))

\* C13: on every graph built by add calls, adding a pipe whose name is a node
\* raises the duplicate error, with either flag, and adding with
\* make_dependencies_sources false a pipe with a dependency that no node
\* produces raises the unresolved-dependency error when it has passed the
\* validations add makes before (name, config files, nested products, attribute
\* clash); in each case no node and no edge is added.
C13_RejectedAdds ==
    phase = "graph" =>
        \A pipe \in ModuleNames :
            LET r == add(G, Modules[pipe], FALSE)
                rs == add(G, Modules[pipe], TRUE)
            IN  /\ pipe \in NodeSet(G) =>
                      /\ r.err = "DuplicatePipe" /\ r.G = G
                      /\ rs.err = "DuplicatePipe" /\ rs.G = G
                /\ pipe \notin NodeSet(G) /\ HasUnresolved(Modules[pipe]) =>
                      /\ r.err \in {"UnresolvedDependency", "DuplicateConfig",
                                    "NestedProduct", "AttributeError"}
                      /\ r.err = "UnresolvedDependency"
                            \/ add(G, [Modules[pipe] EXCEPT !.deps = <<>>], FALSE).err # ""
                      /\ r.G.nodes = G.nodes /\ r.G.edges = G.edges

\* An add of a pipe with an unresolved dependency to a graph that holds
\* nodes was rejected.
C13_Witness ==
    /\ phase = "graph"
    /\ call.op = "add"
    /\ call.err = "UnresolvedDependency"
    /\ Len(G.nodes) >= 2

\* The dependency paths of a pipe that no node of the graph produces, in the
\* order the pipe declares them.
UnresolvedPaths(decl) ==
    LET paths == [i \in 1..Len(decl.deps) |-> ProductPath(decl.deps[i].prod)]
    IN  SelectSeq(paths, Unproduced)

\* __source__<short name of the pipe><n>
SourceNamed(decl, n) == SOURCE_PREFIX \o LastSegment(decl.name) \o Digits(n)

\* C14: on every graph built by add calls, an accepted add of a pipe with
\* make_dependencies_sources true and an unresolved dependency inserts, right
\* before the pipe, one source pipe named __source__<short><n> with the
\* lowest n that is free, whose products are the unresolved dependency paths
\* of the pipe, and links it to the pipe by one edge for each of them; with
\* no unresolved dependency it inserts the pipe alone.
C14_SourceSynthesis ==
    phase = "graph" =>
        \A pipe \in ModuleNames \ NodeSet(G) :
            LET decl == Modules[pipe]
                r == add(G, decl, TRUE)
                missing == UnresolvedPaths(decl)
                s == r.G.nodes[Len(G.nodes) + 1]
            IN  r.err = "" =>
                  IF missing = <<>>
                  THEN r.G.nodes = Append(G.nodes, pipe)
                  ELSE /\ r.G.nodes = G.nodes \o <<s, pipe>>
                       /\ \E n \in 0..MaxNodes :
                            /\ s = SourceNamed(decl, n)
                            /\ \A k \in 0..(n - 1) : SourceNamed(decl, k) \in NodeSet(G)
                       /\ r.G.data[s].products = missing
                       /\ \A i \in 1..Len(missing) :
                            Cardinality({e \in (Len(G.edges) + 1)..Len(r.G.edges) :
                                r.G.edges[e] = <<s, pipe, missing[i]>>}) = 1

\* C15: in a session, the pipes that _gap_pipes returns for a target with no
\* always_build hold no source pipe, and every source pipe passes the
\* built test.
C15_SourceNeverStale ==
    phase = "ws" =>
        /\ \A T \in NodeSet(G) : \A rsp \in BOOLEAN :
              \A p \in Range(_gap_pipes(T, {}, rsp)) : ~is_source_pipe(p)
        /\ \A s \in NodeSet(G) : is_source_pipe(s) => _is_pipe_built(s)

\* The dependencies of a pipe whose producer is a source pipe.
SourceDeps(pipe_name) ==
    {i \in 1..Len(G.data[pipe_name].pipe.deps) :
        is_source_pipe(G.data[pipe_name].dep_source[i])}

NoSaveParents(T) ==
    {G.data[T].dep_source[i] :
        i \in {k \in 1..Len(G.data[T].pipe.deps) :
                  G.data[T].pipe.deps[k].prod.save = "none"}}

RECURSIVE IsSubsequence(_, _)
IsSubsequence(s, t) ==
    IF s = <<>> THEN TRUE
    ELSE IF t = <<>> THEN FALSE
    ELSE IF Head(s) = Head(t) THEN IsSubsequence(Tail(s), Tail(t))
    ELSE IsSubsequence(s, Tail(t))

\* The sets of pipes a caller can name in configs.
AlwaysBuildSets == {{}} \cup {{n} : n \in NodeSet(G)}

\* C18: in every state of a session, for every target, every always_build
\* set and either flag, _gap_pipes returns a subsequence of the lineage of
\* the target followed by the target.
C18_TrajectorySubsequence ==
    phase = "ws" =>
        \A T \in NodeSet(G), always_build \in AlwaysBuildSets, rsp \in BOOLEAN :
            IsSubsequence(_gap_pipes(T, always_build, rsp),
                          Append(get_lineage(G, T), T))

\* A state where the pipes returned for a target that has ancestors are
\* some of its lineage and not all of it.
C18_Witness ==
    /\ phase = "ws"
    /\ \E T \in NodeSet(G) :
          /\ get_lineage(G, T) # <<>>
          /\ _gap_pipes(T, {}, FALSE) # <<>>
          /\ _gap_pipes(T, {}, FALSE) # Append(get_lineage(G, T), T)

\* C19: when a build made by a backfill for a pipe named in its configs has
\* ended well, the action ran with the parameter at the value the configs
\* give and the parameter snapshot of the pipe holds that value.
C19_OverrideApplied ==
    (call.op = "backfill" /\ call.log # <<>> /\ LastEntry.ev = "exit"
        /\ LastEntry.rc = 0 /\ LastEntry.pipe \in call.always) =>
        /\ LastEntry.x = ParamOverride
        /\ params_yml[LastEntry.pipe] = ParamOverride

\* C20: for every graph built by add calls, loading what save writes gives
\* a graph of the same nodes in the same order and the same labelled edges.
C20_SaveLoadRoundTrip ==
    phase = "graph" =>
        LET r == load(save(G))
        IN  /\ r.err = ""
            /\ r.G.nodes = G.nodes
            /\ r.G.edges = G.edges

\* The products declared by the pipes of the graph.
DeclaredProducts ==
    UNION {Range(G.data[n].pipe.products) : n \in NodeSet(G)}

\* The files of the non-static products written in session s.
LocalFilesOf(s) ==
    {f \in disk : StartsWith(f, <<HOME_DIR_DEFAULT, s, PRODUCTS_DIR_NAME>>)}

\* The paths the staleness analysis of the current session tests: the
\* products of each pipe (_is_pipe_built) and the static dependencies
\* (line 764 of _gap_pipes).
TestedPaths ==
    UNION {{Format(G.data[n].products[i]) : i \in 1..Len(G.data[n].products)} :
              n \in NodeSet(G)}
      \cup {ProductPath(d.prod) :
              d \in {e \in UNION {Range(G.data[n].pipe.deps) : n \in NodeSet(G)} :
                        e.prod.static}}

\* The files the last build read for its dependencies.
ReadPaths ==
    IF call.op = "build"
    THEN {call.bound[i].of : i \in {k \in 1..Len(call.bound) : call.bound[k].read}}
    ELSE {}

\* No file of a non-static product of another session is read by the last
\* build or tested by the staleness analysis, and every non-static,
\* non-external product resolves below the products directory of the
\* current session.
Isolated ==
    /\ \A s \in DOMAIN others : \A f \in LocalFilesOf(s) :
          /\ f \notin ReadPaths
          /\ \A t \in TestedPaths : ~StartsWith(f, t)
    /\ \A p \in DeclaredProducts :
          (~p.static /\ ~p.external) =>
              StartsWith(Format(ProductPath(p)),
                         <<HOME_DIR_DEFAULT, SESSION_ID, PRODUCTS_DIR_NAME>>)

\* C21: in a Workspace that moves between sessions, no build and no
\* staleness test of the current session reads a file that another session
\* wrote for a non-static, non-external product, and when the current
\* session changes every such product resolves to another location than
\* before, while every static product resolves to the same location and,
\* unless the whole home was cleared, is on disk afterwards if it was before.
C21_SessionIsolation ==
    [][/\ Isolated'
       /\ SESSION_ID' # SESSION_ID =>
            \A p \in DeclaredProducts :
                IF p.static
                THEN /\ Format(ProductPath(p))' = Format(ProductPath(p))
                     /\ (Exists(disk, Format(ProductPath(p))) /\ ~call'.clear_all)
                            => Exists(disk, Format(ProductPath(p)))'
                ELSE p.external \/ Format(ProductPath(p))' # Format(ProductPath(p))
      ]_vars

\* m.F was built in a session other than the first from the static product
\* m.C wrote in the first session, m.C having no build record in this
\* session, while the product m.F wrote in the first session is on disk and
\* is not the one this session resolves.
C21_Witness ==
    /\ SESSION_ID # "s1"
    /\ "s1" \in DOMAIN others
    /\ call.op = "build" /\ call.status = "done" /\ call.target = M("F")
    /\ ages[M("C")] = INF
    /\ others["s1"].ages[M("F")] # INF
    /\ LocalFilesOf("s1") # {}
    /\ ReadPaths # {}

\* HOME/<s> is a directory: the directory of the current session, of another
\* session, or one that holds files.
DirectoryExists(s) ==
    \/ s = SESSION_ID
    \/ s \in DOMAIN others
    \/ \E f \in disk : Len(f) >= 2 /\ f[1] = HOME_DIR_DEFAULT /\ f[2] = s

\* The step leaves the current session, its records and the other sessions
\* as they were.
SessionUnchanged ==
    /\ SESSION_ID' = SESSION_ID
    /\ others' = others
    /\ SessionRecords' = SessionRecords
    /\ disk' = disk

\* C22: load_session(s) raises and leaves the current session as it was when
\* HOME/s is not a directory, and create_session(s) raises and leaves the
\* current session as it was when HOME/s is a directory; otherwise the call
\* returns normally with s the current session.
C22_LoadCreate ==
    [][/\ call'.op = "load_session" =>
            IF ~DirectoryExists(call'.session)
            THEN /\ call'.status = "raised"
                 /\ call'.err = "FileNotFoundError"
                 /\ SessionUnchanged
            ELSE /\ call'.status = "done"
                 /\ SESSION_ID' = call'.session
       /\ call'.op = "create_session" =>
            IF DirectoryExists(call'.session)
            THEN /\ call'.status = "raised"
                 /\ call'.err = "FileExistsError"
                 /\ SessionUnchanged
            ELSE /\ call'.status = "done"
                 /\ SESSION_ID' = call'.session
      ]_vars

\* The first session, in which a pipe was built, was loaded again from a
\* second session that exists beside it.
C22_Witness ==
    /\ call.op = "load_session" /\ call.status = "done"
    /\ SESSION_ID = "s1"
    /\ "s2" \in DOMAIN others
    /\ \E n \in NodeSet(G) : ages[n] # INF

\* The files below a directory.
FilesBelow(files, dir) == {f \in files : StartsWith(f, dir)}

\* What clear_cache does besides choosing the id of the session it starts:
\* with clear_all nothing is left below HOME, no other session and no
\* meta.warp, and the current session is empty; without it, on the current
\* session, nothing is left below the directory of that session, its pipe
\* records are gone, and the files outside it and the other sessions are as
\* they were.
Cleared ==
    IF call'.clear_all
    THEN /\ FilesBelow(disk', <<HOME_DIR_DEFAULT>>) = {}
         /\ others' = <<>>
         /\ meta_warp' = ""
         /\ SessionRecords' = NewSession
    ELSE call'.session = SESSION_ID =>
         /\ FilesBelow(disk', <<HOME_DIR_DEFAULT, SESSION_ID>>) = {}
         /\ disk' = disk \ FilesBelow(disk, <<HOME_DIR_DEFAULT, SESSION_ID>>)
         /\ SessionRecords' = NewSession
         /\ others' = others

\* C23 (as amended): clear_cache with clear_all false on the current session
\* removes the directory of that session, with its pipe records and its
\* non-static products, and makes a new, empty session of the same id the
\* current one; with clear_all true everything below HOME is removed and an
\* empty session is started.
C23_ClearCache ==
    [][(call'.op = "clear_cache" /\ call'.status = "done") =>
          /\ Cleared
          /\ (~call'.clear_all /\ call'.session = SESSION_ID) =>
                SESSION_ID' = SESSION_ID
      ]_vars

\* The current session was cleared after a pipe had been built in it, and
\* files outside its directory are left.
C23_Witness ==
    /\ call.op = "clear_cache" /\ call.status = "done"
    /\ ~call.clear_all
    /\ call.session = SESSION_ID
    /\ meta_warp = SESSION_ID
    /\ disk # {}
    /\ \A n \in NodeSet(G) : ages[n] = INF

\* C23 (as stated): clear_cache with clear_all false on the current session
\* removes the directory of that session and makes a session with an id
\* other than the cleared one the current one; with clear_all true
\* everything below HOME is removed and an empty session is started.
C23_AsStated ==
    [][(call'.op = "clear_cache" /\ call'.status = "done") =>
          /\ Cleared
          /\ (~call'.clear_all /\ call'.session = SESSION_ID) =>
                SESSION_ID' # SESSION_ID
      ]_vars

\* C24: after a load_session, a create_session or a build that returned
\* normally, HOME/meta.warp names the current session, and after a resume
\* that found HOME/meta.warp the current session is the one it names.
C24_MetaNamesCurrent ==
    /\ (call.op \in {"load_session", "create_session", "build"}
            /\ call.status = "done") => meta_warp = SESSION_ID
    /\ (call.op = "resume" /\ call.status = "done" /\ meta_warp # "")
            => SESSION_ID = meta_warp

\* Some ancestor of T that is a pipe of the user has no build record in the
\* current session, or has a later one than a pipe of T's lineage (T
\* included) that it has a path to.
OutOfSync(T) ==
    \E P \in {n \in ancestors(G, T) : ~is_source_pipe(n)} :
        \/ ages[P] = INF
        \/ \E Q \in (ancestors(G, T) \cup {T}) \ {P} :
              /\ has_path(G, P, Q)
              /\ ages[Q] < ages[P]

\* C25: a build called by the user for a pipe with an ancestor that is
\* unbuilt or newer than one of its descendants raises, and leaves the
\* metadata, the snapshots, the products and HOME/meta.warp as they were.
C25_BuildRefusesOutOfSync ==
    [][(call'.op = "build" /\ call'.target \in NodeSet(G)
            /\ OutOfSync(call'.target))
          => (call'.status = "raised" /\ NothingPersisted)]_vars

\* The strings resolved: the names a caller passes, the node names in full,
\* and a string with the prefix of the source pipes that names no node.
QueryNames ==
    UserNames \cup NodeSet(G) \cup {SOURCE_PREFIX \o <<"z", "z">>}

\* The nodes whose name holds the string, the synthesized source pipes
\* left out as the fuzzy match leaves them out.
Matching(name) ==
    {n \in NodeSet(G) : IsSubstring(name, n) /\ ~is_source_pipe(n)}

\* C26: on every graph built by add calls, a string that is a node name
\* resolves to itself; any other string resolves to the one node name that
\* holds it, raises the unknown-pipe error when none holds it and the
\* ambiguous-name error when several do; and no string resolves to a name
\* that is not a node.
C26_NameResolution ==
    \A name \in QueryNames :
        LET r == get_pipe_name_from_abbreviation(G, name)
        IN  /\ r.err = "" => r.name \in NodeSet(G)
            /\ IF name \in NodeSet(G)
                   THEN r.err = "" /\ r.name = name
               ELSE IF Matching(name) = {}
                   THEN r.err = "ModuleNotFoundError"
               ELSE IF Cardinality(Matching(name)) = 1
                   THEN r.err = "" /\ r.name \in Matching(name)
               ELSE r.err = "ValueError"

\* C27: a build whose parameter snapshot is refused for the type of a
\* parameter value leaves the metadata record of every pipe, with its
\* last_build_time, and the parameter snapshots as they were.
C27_SnapshotFailureWritesNoMetadata ==
    [][(call'.err = "RuntimeError" \/ call'.child_err = "RuntimeError")
          => (ages' = ages /\ snap' = snap /\ params_yml' = params_yml)]_vars

\* The pipes whose build the current operation has started, in order.
Started ==
    LET starts == SelectSeq(call.log, LAMBDA e : e.ev = "start")
    IN  [i \in 1..Len(starts) |-> starts[i].pipe]

\* C28: a backfill with rebuild_all that has ended without any of its
\* builds failing has built the ancestors of its target in insertion order
\* and then the target, each once.
C28_RebuildAllBuildsLineage ==
    (/\ call.op = "backfill" /\ call.rebuild_all
     /\ call.status # "running"
     /\ \A i \in 1..Len(call.log) : call.log[i].rc = 0)
        => Started = Append(get_lineage(G, call.target), call.target)

\* C29: a backfill that builds its target and has ended without any of its
\* builds failing has, when its trajectory is empty, built the target once
\* itself and spawned no child, and else spawned one child for each pipe of
\* the trajectory, in order, and built nothing itself.
C29_OneBuildOrChildren ==
    (/\ call.op = "backfill" /\ call.status # "running"
     /\ call.target \in NodeSet(G)
     /\ call.build_target_pipe
     /\ \A i \in 1..Len(call.log) : call.log[i].rc = 0)
        => IF call.traj = <<>>
           THEN call.spawned = 0 /\ Started = <<call.target>>
           ELSE call.spawned = Len(call.traj) /\ Started = call.traj

\* The entries of the log of one kind.
Entries(ev) == {i \in 1..Len(call.log) : call.log[i].ev = ev}

\* In the log of a backfill every build that starts, but the first, follows
\* a build that exited with status 0; at most one build has started and not
\* exited, and one has exactly when a child is running.
OneAtATime ==
    (call.op = "backfill" /\ call.traj # <<>>) =>
        /\ \A j \in Entries("start") :
              j = 1 \/ (call.log[j - 1].ev = "exit" /\ call.log[j - 1].rc = 0)
        /\ \A j \in Entries("exit") :
              j > 1 /\ call.log[j - 1] = StartEntry(call.log[j].pipe)
        /\ Cardinality(Entries("start")) - Cardinality(Entries("exit"))
              = IF pc = "child" THEN 1 ELSE 0

\* C30: in a backfill at most one build is in progress at any time and a
\* child is spawned only after the child before it has exited with status
\* 0; while a child is running the only step taken is the exit of that
\* child, which ends its build: no other build starts and the metadata of
\* no other pipe is written.
C30_OneBuildAtATime ==
    [][/\ OneAtATime'
       /\ pc = "child" =>
            /\ pc' # "child"
            /\ call'.op = "backfill"
            /\ Len(call'.log) = Len(call.log) + 1
            /\ LastEntry'.ev = "exit"
            /\ LastEntry'.pipe = LastEntry.pipe
            /\ call'.spawned = call.spawned
            /\ \A n \in NodeSet(G) \ {LastEntry.pipe} :
                  /\ ages'[n] = ages[n]
                  /\ snap'[n] = snap[n]
                  /\ srcsnap'[n] = srcsnap[n]
      ]_vars

\* The second child of a backfill is running, the first having exited with
\* status 0.
C30_Witness ==
    /\ call.op = "backfill"
    /\ pc = "child"
    /\ call.idx = 2
    /\ Len(call.log) = 3
    /\ call.log[2].rc = 0


---------------------------------------------------------------------------
\* C31: whenever a backfill has handed a pipe to a child process, the
\* current session holds a graph record (graph.pkl, written from the graph
\* of the workspace) for the child to load, whichever way the session was
\* entered.
C31_ChildFindsGraph ==
    pc = "child" =>
        /\ graph_pkl.exists
        /\ graph_pkl.pipe_info = save(G)

\* The dependencies of the pipe a backfill built last that are save=False
\* products of a pipe built earlier in the same backfill.
BuiltInThisBackfill ==
    LET B == LastEntry.pipe
    IN  {i \in 1..Len(call.seen) :
            /\ ~call.bound[i].read
            /\ call.bound[i].kind = "value"
            /\ \E k \in 1..Len(call.log) :
                  /\ call.log[k].ev = "exit"
                  /\ call.log[k].rc = 0
                  /\ call.log[k].pipe = G.data[B].dep_source[i]}

\* C32: when a backfill builds a pipe A and then a pipe B that depends on a
\* save=False product of A, the action of B runs with that dependency bound
\* to the value the action of A assigned, not to the value the product was
\* declared with.
C32_InMemoryValueObserved ==
    (call.op = "backfill" /\ call.seen # <<>>) =>
        \A i \in BuiltInThisBackfill : call.seen[i] = "assigned"

\* The reasons but the chronology for which Workspace._gap_pipes lists a
\* pipe p in the analysis of T: p was never built, a product of p is not on
\* disk, or p hands T a product that is kept in memory.
OtherReason(T, p) ==
    \/ ages[p] = INF
    \/ ~_is_pipe_built(p)
    \/ p \in parents_rebuild(T)

\* C33: a pipe that the analysis of a target lists for no other reason than
\* the chronology is older than a pipe that is earlier in the lineage and
\* has a path to it: being older than a pipe of another branch, which
\* merely precedes it in the lineage, puts no pipe on the trajectory.
C33_ChronologyNeedsPath ==
    phase = "ws" =>
        \A T \in NodeSet(G) :
            LET lineage == Append(get_lineage(G, T), T)
                traj == _gap_pipes(T, {}, FALSE)
            IN  \A i \in 1..Len(lineage) :
                    (lineage[i] \in Range(traj) /\ ~OtherReason(T, lineage[i])) =>
                        \E j \in 1..(i - 1) :
                            /\ lineage[j] \in ancestors(G, lineage[i])
                            /\ ages[lineage[i]] < ages[lineage[j]]

\* In the diamond every pipe above m.K is built, m.H before m.B: m.H is
\* older than m.B, which precedes it in the lineage of m.K, is not older
\* than its ancestor m.A, and is not on the trajectory of m.K.
C33_Witness ==
    /\ M("K") \in NodeSet(G)
    /\ ages[M("H")] < ages[M("B")]
    /\ ages[M("B")] < INF
    /\ ages[M("A")] <= ages[M("H")]
    /\ _is_pipe_built(M("H"))
    /\ M("H") \notin Range(_gap_pipes(M("K"), {}, FALSE))

\* The products of a pipe that a build writes to disk (save is not False).
SavedProducts(p) ==
    {i \in 1..Len(G.data[p].pipe.products) :
        G.data[p].pipe.products[i].save # "none"}

\* C34: a pipe that has a saved product, has every saved product on disk,
\* was built, is not older than an earlier pipe of the lineage with a path
\* to it and is not a no-save parent of the target is not on the trajectory
\* of the target: the products it keeps in memory do not count as missing.
C34_OnlySavedProductsTested ==
    phase = "ws" =>
        \A T \in NodeSet(G) :
            LET lineage == PrunedLineage(T, FALSE)
            IN  \A i \in 1..Len(lineage) :
                    LET p == lineage[i]
                    IN  (/\ SavedProducts(p) # {}
                         /\ \A k \in SavedProducts(p) :
                               Exists(disk, Format(ProductPath(G.data[p].pipe.products[k])))
                         /\ ages[p] # INF
                         /\ ~ChronologyViolation(lineage, i)
                         /\ p \notin parents_rebuild(T)) =>
                            p \notin Range(_gap_pipes(T, {}, FALSE))

\* The dependencies, of the pipes of the lineage of T and of T, that the
\* pipe p produces.
EdgesFrom(p, T) ==
    {d \in DepsOf(Append(get_lineage(G, T), T)) : G.data[d[1]].dep_source[d[2]] = p}

\* The product of a dependency is static and is on disk.
OnDiskStatic(d) ==
    LET prod == G.data[d[1]].pipe.deps[d[2]].prod
    IN  prod.static /\ <<HOME_DIR_DEFAULT, STATIC_PRODUCTS_DIR_NAME>> \o prod.raw \in disk

\* The pipes of the lineage of T, and T, that hand the lineage some product
\* that is not static or not on disk, or none at all, or are asked to
\* rebuild their static products.
Needed(T, rsp) ==
    {p \in Range(Append(get_lineage(G, T), T)) :
        \/ rsp
        \/ EdgesFrom(p, T) = {}
        \/ \E d \in EdgesFrom(p, T) : ~OnDiskStatic(d)}

\* C35: with link_static_products, a pipe leaves the lineage of T only if
\* every product it hands to the lineage is static and on disk (and
\* rebuild_static_products is not set) or T cannot be reached from it
\* through the pipes that are not of this kind; a pipe that hands the
\* lineage a product that is not static or not on disk, and from which T
\* is reached through such pipes, stays; and T is reachable, inside what
\* is left, from every pipe that is left.
C35_StaticPruning ==
    (phase = "ws" /\ link_static_products) =>
        \A T \in NodeSet(G), rsp \in BOOLEAN :
            LET full == Range(Append(get_lineage(G, T), T))
                left == Range(PrunedLineage(T, rsp))
                needed == Needed(T, rsp)
            IN  /\ left \subseteq full
                /\ \A p \in full \ left :
                      p \notin needed \/ p \notin ReachTo({T}, needed)
                /\ \A p \in needed \cap ReachTo({T}, needed) : p \in left
                /\ \A p \in left : p \in ReachTo({T}, left)

\* m.T's static product is on disk: m.T has left the lineage of m.U, and
\* with it m.W, from which m.U is reached through m.T only, while both are
\* in the lineage of m.V, which takes from m.T a product that is not static.
C35_Witness ==
    /\ link_static_products
    /\ M("V") \in NodeSet(G)
    /\ PrunedLineage(M("U"), FALSE) = <<M("U")>>
    /\ PrunedLineage(M("V"), FALSE) = <<M("W"), M("T"), M("V")>>
    /\ PrunedLineage(M("U"), TRUE) = <<M("W"), M("T"), M("U")>>

\* The sessions beside the current one, as Workspace.sessions lists them:
\* the directories under HOME but that of the static products.
OtherSessions == DOMAIN others \ {STATIC_PRODUCTS_DIR_NAME}

\* C36: clear_cache(session_id=X) without clear_all, for a session X that is
\* not the current one, removes the files below HOME/X and the records of X
\* and nothing else: the current session, its records and files, the other
\* sessions, the static products and HOME/meta.warp are as they were.
C36_ClearOtherSession ==
    [][(/\ call'.op = "clear_cache" /\ call'.status = "done"
        /\ ~call'.clear_all
        /\ call'.session # SESSION_ID
        /\ call'.session \in OtherSessions) =>
          /\ SESSION_ID' = SESSION_ID
          /\ SessionRecords' = SessionRecords
          /\ meta_warp' = meta_warp
          /\ disk' = disk \ FilesBelow(disk, <<HOME_DIR_DEFAULT, call'.session>>)
          /\ FilesBelow(disk', <<HOME_DIR_DEFAULT, STATIC_PRODUCTS_DIR_NAME>>)
                = FilesBelow(disk, <<HOME_DIR_DEFAULT, STATIC_PRODUCTS_DIR_NAME>>)
          /\ FilesBelow(disk', <<HOME_DIR_DEFAULT, SESSION_ID>>)
                = FilesBelow(disk, <<HOME_DIR_DEFAULT, SESSION_ID>>)
          /\ DOMAIN others' = DOMAIN others \ {call'.session}
          /\ \A t \in DOMAIN others' : others'[t] = others[t]
      ]_vars

\* Another session than the current one was cleared; the current session
\* holds a built pipe and its product, and a static product is on disk.
C36_Witness ==
    /\ call.op = "clear_cache" /\ call.status = "done"
    /\ ~call.clear_all
    /\ call.session \in {"s1", "s2"} \ {SESSION_ID}
    /\ call.session \notin DOMAIN others
    /\ \E n \in NodeSet(G) : ages[n] # INF
    /\ FilesBelow(disk, <<HOME_DIR_DEFAULT, SESSION_ID>>) # {}
    /\ FilesBelow(disk, <<HOME_DIR_DEFAULT, STATIC_PRODUCTS_DIR_NAME>>) # {}

\* C37: an add that raises leaves the nodes, the edges and the registered
\* config paths of the graph as they were before the call.
C37_RejectedAddChangesNothing ==
    [][(call'.op = "add" /\ call'.status = "raised") =>
          /\ G'.nodes = G.nodes
          /\ G'.edges = G.edges
          /\ G'.config_files = G.config_files
      ]_vars

\* C38: every pipe of the lineage of a target, or the target, that descends
\* from a pipe on the trajectory of the target is on the trajectory too.
\* (It is stated for the pipes of the user's modules: the synthesized source
\* pipes are the subject of C15.)
C38_ClosedUnderDescendants ==
    phase = "ws" =>
        \A T \in NodeSet(G) :
            LET traj == Range(_gap_pipes(T, {}, FALSE))
            IN  \A P \in traj, Q \in Range(Append(get_lineage(G, T), T)) :
                    (~is_source_pipe(P) /\ P # Q /\ has_path(G, P, Q)) =>
                        Q \in traj

\* C39: no build of a pipe of the graph, by the workspace or by a child of a
\* backfill, fails in Pipe.load_products for want of the producer's product
\* (the AttributeError of lines 110-114).
C39_ProducerFoundAtBuild ==
    (call.op \in {"build", "backfill"} /\ call.target \in NodeSet(G)) =>
        /\ call.err # "AttributeError"
        /\ call.child_err # "AttributeError"

\* C40: when HOME/meta.warp exists, the session it names has a directory
\* under HOME, and no resume raises for want of that session.
C40_MetaNamesExistingSession ==
    /\ meta_warp # "" => DirectoryExists(meta_warp)
    /\ call.op = "resume" => call.status = "done"

=============================================================================
